---- MODULE Spec2Model ----
(***************************************************************************)
(* Lead enrichment and scoring pipeline (LeadEnricher, ScoringEngine and   *)
(* the process_leads driver of app.py).                                    *)
(*                                                                         *)
(* Numbers: weights are exact rationals num/den; sub-scores are integers   *)
(* in hundredths of a point; stored (rounded) scores are integers in       *)
(* tenths of a point; percentile draws are integers in hundredths.         *)
(***************************************************************************)
EXTENDS Integers, Sequences, FiniteSets, TLC

VARIABLES
    weights,      \* ScoringEngine.weights: key -> [num, den]
    call,         \* the operation in progress / last run: [fn, arg]
    rnd,          \* what the random module returned to that call
    ret,          \* its outcome: [status, exc, val]
    enriched_df,      \* process_leads' enriched_df: the table enrich_leads returned
    processed_leads   \* st.session_state.processed_leads: the last scored table

vars == <<weights, call, rnd, ret, enriched_df, processed_leads>>

(***************************************************************************)
(* Bounds of the model.                                                    *)
(***************************************************************************)
MaxBatch == 2      \* rows of a table handed to enrich_leads / score_leads
MaxNameLen == 3    \* characters of a name handed to _generate_linkedin_url
MaxParts == 2      \* fragments an e-mail local part / a domain is built from
Grain == 1         \* random.uniform(a, b) is sampled at a + k*(b-a)/Grain

(***************************************************************************)
(* Strings: str.lower, the `in` operator, str.replace, re.sub.             *)
(***************************************************************************)
\* the lower-case letter of each upper-case ASCII letter
LowerOf ==
    ("A" :> "a") @@ ("B" :> "b") @@ ("C" :> "c") @@ ("D" :> "d") @@ ("E" :> "e") @@ ("F" :> "f") @@
    ("G" :> "g") @@ ("H" :> "h") @@ ("I" :> "i") @@ ("J" :> "j") @@ ("K" :> "k") @@ ("L" :> "l") @@
    ("M" :> "m") @@ ("N" :> "n") @@ ("O" :> "o") @@ ("P" :> "p") @@ ("Q" :> "q") @@ ("R" :> "r") @@
    ("S" :> "s") @@ ("T" :> "t") @@ ("U" :> "u") @@ ("V" :> "v") @@ ("W" :> "w") @@ ("X" :> "x") @@
    ("Y" :> "y") @@ ("Z" :> "z")

UpperLetters == DOMAIN LowerOf
LowerLetters == {LowerOf[c] : c \in UpperLetters}

CharAt(s, i) == SubSeq(s, i, i)

IsLetter(c) == c \in UpperLetters \/ c \in LowerLetters
\* the characters the regex class \s matches
IsSpace(c) == c \in {" ", "\t", "\n", "\r", "\f"}

LowerChar(c) == IF c \in UpperLetters THEN LowerOf[c] ELSE c

RECURSIVE MapChars(_, _, _)
\* the string made of F(c) for every character c of s from position i on
MapChars(F(_), s, i) ==
    IF i > Len(s) THEN "" ELSE F(CharAt(s, i)) \o MapChars(F, s, i + 1)

\* str.lower()
Lower(s) == MapChars(LowerChar, s, 1)

\* pattern in s
Contains(s, pattern) ==
    \E i \in 1..(Len(s) - Len(pattern) + 1) : SubSeq(s, i, i + Len(pattern) - 1) = pattern

\* any(pattern in s for pattern in patterns)
ContainsAny(s, patterns) == \E p \in patterns : Contains(s, p)

\* re.sub(r'[^a-zA-Z\s]', '', name)
KeepLetterOrSpace(c) == IF IsLetter(c) \/ IsSpace(c) THEN c ELSE ""
StripNonLetters(name) == MapChars(KeepLetterOrSpace, name, 1)

\* s.replace(' ', '-')
SpaceToHyphen(c) == IF c = " " THEN "-" ELSE c
ReplaceSpaces(s) == MapChars(SpaceToHyphen, s, 1)

(***************************************************************************)
(* The random module.                                                      *)
(***************************************************************************)
RECURSIVE SumTo(_, _)
\* wts[1] + ... + wts[i]
SumTo(wts, i) == IF i = 0 THEN 0 ELSE wts[i] + SumTo(wts, i - 1)

\* bisect_left in place of bisect_right
WeightedChoice_BisectLeft(population, wts, p) ==
    LET n == Len(population)
        total == SumTo(wts, n)
    IN  population[Cardinality({i \in 1..(n - 1) : SumTo(wts, i) * 100 < p * total}) + 1]

\* random.choices(population, weights=wts)[0] when random() returns p/100:
\* bisect_right of p * total in the cumulative weights, capped at the last index
WeightedChoice(population, wts, p) ==
    LET n == Len(population)
        total == SumTo(wts, n)
    IN  population[Cardinality({i \in 1..(n - 1) : SumTo(wts, i) * 100 <= p * total}) + 1]

\* random.choice(seq) when the generator returns the raw integer k
Choice(seq, k) == seq[(k % Len(seq)) + 1]

\* random.uniform(lo, hi) in hundredths, k-th of the Grain+1 sample points
Uniform(lo, hi, k) == lo * 100 + ((hi - lo) * 100 * k) \div Grain

UnitDraws == 0..Grain

\* the values random() is sampled at, in hundredths: each bucket boundary of
\* the two weight lists, the value just below it, and the two ends
Percentiles == {0, 19, 20, 39, 40, 49, 50, 64, 65, 79, 80, 89, 90, 94, 95, 99}

(***************************************************************************)
(* Exceptions and outcomes.                                                *)
(***************************************************************************)
NoExc == [kind |-> "None", arg |-> ""]
Exc(kind, arg) == [kind |-> kind, arg |-> arg]

Pending == [status |-> "pending", exc |-> NoExc, val |-> <<>>]
Returned(v) == [status |-> "returned", exc |-> NoExc, val |-> v]
Raised(e) == [status |-> "raised", exc |-> e, val |-> <<>>]

\* a cell pandas read as missing: the float nan, which has no str methods
NaN == "<NaN>"

(***************************************************************************)
(* LeadEnricher                                                            *)
(***************************************************************************)
\* the pools with an entry-level title among the technical ones
job_titles_WithJunior == [
    technical |-> <<"Software Engineer", "Junior Developer">>,
    management |-> <<"Engineering Manager">>,
    executive |-> <<"CTO">>,
    decision_maker |-> <<"CEO">>,
    other |-> <<"Product Manager">>]

job_titles == [
    technical |-> <<"Software Engineer", "Senior Software Engineer", "Lead Developer",
                    "Full Stack Developer", "Frontend Developer", "Backend Developer",
                    "DevOps Engineer", "Site Reliability Engineer", "Data Engineer",
                    "Machine Learning Engineer", "AI Engineer", "Cloud Architect">>,
    management |-> <<"Engineering Manager", "Technical Lead", "Team Lead",
                     "Principal Engineer", "Staff Engineer", "Senior Technical Lead">>,
    executive |-> <<"CTO", "VP Engineering", "Head of Engineering", "Director of Technology",
                    "Chief Technology Officer", "VP of Product", "Head of IT">>,
    decision_maker |-> <<"CEO", "Founder", "Co-Founder", "President", "VP Sales",
                         "Chief Executive Officer", "Managing Director">>,
    other |-> <<"Product Manager", "Project Manager", "Business Analyst",
                "Technical Writer", "QA Engineer", "Sales Engineer">>]

tech_stacks == <<
    "React, Node.js, MongoDB",
    "Python, Django, PostgreSQL",
    "Java, Spring Boot, MySQL",
    "Vue.js, Express, Redis",
    "Angular, .NET, SQL Server",
    "Ruby on Rails, PostgreSQL",
    "PHP, Laravel, MySQL",
    "Go, Kubernetes, Docker",
    "Scala, Spark, Cassandra",
    "Swift, iOS, Firebase",
    "Kotlin, Android, SQLite",
    "TypeScript, Next.js, Prisma">>

company_sizes == <<"Startup", "Small", "Medium", "Large", "Enterprise">>

DecisionMakerPatterns == {"ceo", "founder", "president", "exec"}
ExecutivePatterns == {"cto", "vp", "head", "director"}
TechnicalPatterns == {"dev", "engineer", "tech", "code"}
ManagementPatterns == {"manager", "lead", "principal"}
NameTitles == {"dr", "prof", "phd"}

category_weights == <<40, 25, 15, 10, 10>>
categories == <<"technical", "management", "executive", "decision_maker", "other">>

\* the technical patterns tried before the two executive groups
MatchedRule_TechnicalFirst(email, name) ==
    LET email_lower == Lower(email)
        name_lower == Lower(name)
    IN  IF ContainsAny(email_lower, TechnicalPatterns) THEN 3
        ELSE IF ContainsAny(email_lower, DecisionMakerPatterns) THEN 1
        ELSE IF ContainsAny(email_lower, ExecutivePatterns) THEN 2
        ELSE IF ContainsAny(email_lower, ManagementPatterns) THEN 4
        ELSE IF ContainsAny(name_lower, NameTitles) THEN 5
        ELSE 6

\* the first rule of _determine_job_category that email and name match;
\* 6 is the default distribution
MatchedRule(email, name) ==
    LET email_lower == Lower(email)
        name_lower == Lower(name)
    IN  IF ContainsAny(email_lower, DecisionMakerPatterns) THEN 1
        ELSE IF ContainsAny(email_lower, ExecutivePatterns) THEN 2
        ELSE IF ContainsAny(email_lower, TechnicalPatterns) THEN 3
        ELSE IF ContainsAny(email_lower, ManagementPatterns) THEN 4
        ELSE IF ContainsAny(name_lower, NameTitles) THEN 5
        ELSE 6

\* _determine_job_category(email, name), p the random() draw of random.choices
DetermineJobCategory(email, name, p) ==
    LET rule == MatchedRule(email, name)
    IN  IF rule = 6
        THEN WeightedChoice(categories, category_weights, p)
        ELSE <<"decision_maker", "executive", "technical", "management", "technical">>[rule]

\* the fallback drawing from the labels Mid and Senior
DetermineSeniority_MidLabel(job_title, email, k) ==
    LET title_lower == Lower(job_title)
    IN  IF ContainsAny(title_lower, {"ceo", "cto", "vp", "head", "director", "chief"})
        THEN "Executive"
        ELSE IF ContainsAny(title_lower, {"senior", "lead", "principal", "staff", "manager"})
        THEN "Senior"
        ELSE IF ContainsAny(title_lower, {"junior", "associate", "intern"})
        THEN "Junior"
        ELSE Choice(<<"Mid", "Senior">>, k)

\* _determine_seniority(job_title, email), k the raw draw of random.choice
DetermineSeniority(job_title, email, k) ==
    LET title_lower == Lower(job_title)
    IN  IF ContainsAny(title_lower, {"ceo", "cto", "vp", "head", "director", "chief"})
        THEN "Executive"
        ELSE IF ContainsAny(title_lower, {"senior", "lead", "principal", "staff", "manager"})
        THEN "Senior"
        ELSE IF ContainsAny(title_lower, {"junior", "associate", "intern"})
        THEN "Junior"
        ELSE Choice(<<"Mid-level", "Senior">>, k)

\* _generate_linkedin_url(name)
GenerateLinkedinUrl(name) ==
    LET clean_name == StripNonLetters(name)
        url_name == ReplaceSpaces(Lower(clean_name))
    IN  "https://linkedin.com/in/" \o url_name

large_domains == {"google", "microsoft", "apple", "amazon", "facebook", "netflix"}
size_weights == <<20, 30, 30, 15, 5>>

\* the domain names one of the well-known large companies
IsLargeDomain(domain) == ContainsAny(Lower(domain), large_domains)

\* _determine_company_size(domain), p the random() draw of random.choices
DetermineCompanySize(domain, p) ==
    IF IsLargeDomain(domain)
    THEN "Enterprise"
    ELSE WeightedChoice(company_sizes, size_weights, p)

\* _generate_phone_number() for the three random.randint results
GeneratePhoneNumber(area_code, exchange, number) ==
    "+1 (" \o ToString(area_code) \o ") " \o ToString(exchange) \o "-" \o ToString(number)

RequiredFields == <<"name", "email", "company_domain">>

\* _enrich_single_lead(lead) with the draws d of this row: the dictionary it
\* returns, or the exception a subscript or a str method of it raises
EnrichSingleLead(lead, d) ==
    IF \E i \in 1..Len(RequiredFields) : RequiredFields[i] \notin DOMAIN lead
    THEN \* lead['name'], lead['email'], lead['company_domain'], in this order
         LET i == CHOOSE j \in 1..Len(RequiredFields) :
                      /\ RequiredFields[j] \notin DOMAIN lead
                      /\ \A h \in 1..(j - 1) : RequiredFields[h] \in DOMAIN lead
         IN  [exc |-> Exc("KeyError", RequiredFields[i]), lead |-> <<>>]
    ELSE IF lead.email = NaN \/ lead.name = NaN \/ lead.company_domain = NaN
    THEN \* email.lower(), name.lower() or domain.lower() on a float
         [exc |-> Exc("AttributeError", "lower"), lead |-> <<>>]
    ELSE
        LET name == lead.name
            email == lead.email
            company_domain == lead.company_domain
            job_category == DetermineJobCategory(email, name, d.category)
            job_title == Choice(job_titles[job_category], d.title)
            seniority == DetermineSeniority(job_title, email, d.seniority)
        IN  [exc |-> NoExc,
             lead |-> [name |-> name,
                       email |-> email,
                       company_domain |-> company_domain,
                       job_title |-> job_title,
                       seniority_level |-> seniority,
                       linkedin_url |-> GenerateLinkedinUrl(name),
                       tech_stack |-> Choice(tech_stacks, d.tech),
                       company_size |-> DetermineCompanySize(company_domain, d.size),
                       phone |-> GeneratePhoneNumber(d.area_code, d.exchange, d.number),
                       job_category |-> job_category]]

\* enrich_leads(df) with one record of draws per row: the rows are enriched in
\* order and the first exception ends the call
EnrichLeadsResult(df, draws) ==
    LET rows == [i \in 1..Len(df) |-> EnrichSingleLead(df[i], draws[i])]
    IN  IF \E i \in 1..Len(df) : rows[i].exc # NoExc
        THEN Raised(rows[CHOOSE i \in 1..Len(df) :
                             /\ rows[i].exc # NoExc
                             /\ \A h \in 1..(i - 1) : rows[h].exc = NoExc].exc)
        ELSE Returned([i \in 1..Len(df) |-> rows[i].lead])

(***************************************************************************)
(* ScoringEngine                                                           *)
(***************************************************************************)
WeightKeys == <<"job_title", "tech_stack", "buying_intent">>

Frac(n, d) == [num |-> n, den |-> d]

\* __init__: 0.4 / 0.3 / 0.3
DefaultWeights ==
    ("job_title" :> Frac(4, 10)) @@ ("tech_stack" :> Frac(3, 10)) @@ ("buying_intent" :> Frac(3, 10))

job_title_scores ==
    ("decision_maker" :> <<90, 100>>) @@ ("executive" :> <<80, 95>>) @@
    ("management" :> <<70, 85>>) @@ ("technical" :> <<60, 80>>) @@ ("other" :> <<30, 60>>)

high_value_tech == {"react", "node.js", "python", "kubernetes", "docker",
                    "aws", "azure", "microservices", "api", "cloud"}

\* in tenths: 1.2, 1.1, 1.0, 0.9, 0.8
size_multipliers ==
    ("Enterprise" :> 12) @@ ("Large" :> 11) @@ ("Medium" :> 10) @@ ("Small" :> 9) @@
    ("Startup" :> 8)

\* dict.get(key, default)
Get(table, key, default) == IF key \in DOMAIN table THEN table[key] ELSE default

\* max(lo, min(hi, x))
Clamp(lo, hi, x) ==
    LET m == IF x < hi THEN x ELSE hi
    IN  IF m > lo THEN m ELSE lo

\* round(n/d) to the nearest integer, ties to even (d > 0, n >= 0)
RoundHalfEven(n, d) ==
    LET q == n \div d
        r == n - q * d
    IN  IF 2 * r < d THEN q
        ELSE IF 2 * r > d THEN q + 1
        ELSE IF q % 2 = 0 THEN q ELSE q + 1

\* round(x, 1) of a score x given in hundredths: the result in tenths
Round1(x) == RoundHalfEven(x, 10)

RECURSIVE SumValues(_, _)
\* sum(mapping.values()) over the keys ks
SumValues(mapping, ks) ==
    IF ks = {} THEN 0
    ELSE LET k == CHOOSE x \in ks : TRUE
         IN  mapping[k] + SumValues(mapping, ks \ {k})

\* the guard written as total_weight != 0
UpdateWeightsResult_NonZero(w, new_weights) ==
    LET total_weight == SumValues(new_weights, DOMAIN new_weights)
    IN  IF total_weight # 0
        THEN [k \in DOMAIN new_weights |-> Frac(new_weights[k], total_weight)]
        ELSE w

\* update_weights(new_weights): the weights held afterwards
UpdateWeightsResult(w, new_weights) ==
    LET total_weight == SumValues(new_weights, DOMAIN new_weights)
    IN  IF total_weight > 0
        THEN [k \in DOMAIN new_weights |-> Frac(new_weights[k], total_weight)]
        ELSE w

\* _score_job_title(job_category, seniority), k the draw of random.uniform
ScoreJobTitle(job_category, seniority, k) ==
    LET base_range == Get(job_title_scores, job_category, <<30, 60>>)
        base_score == Uniform(base_range[1], base_range[2], k)
        seniority_bonus ==
            Get(("Executive" :> 10) @@ ("Senior" :> 5) @@ ("Mid-level" :> 0) @@ ("Junior" :> -10),
                seniority, 0)
    IN  Clamp(0, 10000, base_score + seniority_bonus * 100)

\* the vocabulary looked up in tech_stack as written, not lower-cased
ScoreTechStack_CaseSensitive(tech_stack, k) ==
    LET tech_matches == Cardinality({tech \in high_value_tech : Contains(tech_stack, tech)})
    IN  IF tech_matches >= 3 THEN Uniform(85, 100, k)
        ELSE IF tech_matches >= 2 THEN Uniform(70, 90, k)
        ELSE IF tech_matches >= 1 THEN Uniform(55, 75, k)
        ELSE Uniform(30, 60, k)

\* _score_tech_stack(tech_stack), k the draw of random.uniform
ScoreTechStack(tech_stack, k) ==
    LET tech_lower == Lower(tech_stack)
        tech_matches == Cardinality({tech \in high_value_tech : Contains(tech_lower, tech)})
    IN  IF tech_matches >= 3 THEN Uniform(85, 100, k)
        ELSE IF tech_matches >= 2 THEN Uniform(70, 90, k)
        ELSE IF tech_matches >= 1 THEN Uniform(55, 75, k)
        ELSE Uniform(30, 60, k)

\* the market factor drawn from [0, 50]
ScoreBuyingIntent_MarketFifty(lead, km, kn) ==
    LET category_factor ==
            IF lead.job_category \in {"decision_maker", "executive"} THEN 20
            ELSE IF lead.job_category = "management" THEN 10
            ELSE 0
        size_bonus ==
            Get(("Enterprise" :> 15) @@ ("Large" :> 10) @@ ("Medium" :> 5) @@ ("Small" :> 0) @@
                ("Startup" :> 10), lead.company_size, 0)
        seniority_bonus ==
            Get(("Executive" :> 15) @@ ("Senior" :> 10) @@ ("Mid-level" :> 5) @@ ("Junior" :> 0),
                lead.seniority_level, 0)
        market_factor == Uniform(0, 50, km)
        total_intent == (category_factor + size_bonus + seniority_bonus) * 100 + market_factor
        final_intent == total_intent + Uniform(-10, 10, kn)
    IN  Clamp(0, 10000, final_intent)

\* _score_buying_intent(lead), km and kn the two draws of random.uniform
ScoreBuyingIntent(lead, km, kn) ==
    LET category_factor ==
            IF lead.job_category \in {"decision_maker", "executive"} THEN 20
            ELSE IF lead.job_category = "management" THEN 10
            ELSE 0
        size_bonus ==
            Get(("Enterprise" :> 15) @@ ("Large" :> 10) @@ ("Medium" :> 5) @@ ("Small" :> 0) @@
                ("Startup" :> 10), lead.company_size, 0)
        seniority_bonus ==
            Get(("Executive" :> 15) @@ ("Senior" :> 10) @@ ("Mid-level" :> 5) @@ ("Junior" :> 0),
                lead.seniority_level, 0)
        market_factor == Uniform(0, 25, km)
        total_intent == (category_factor + size_bonus + seniority_bonus) * 100 + market_factor
        final_intent == total_intent + Uniform(-10, 10, kn)
    IN  Clamp(0, 10000, final_intent)

\* _generate_explanation: the three clauses and the number printed after
\* "Score:", which is final_score as passed in (an exact fraction of a point)
GenerateExplanation(job_score, tech_score, intent_score, final_score) ==
    [job |-> IF job_score >= 8500 THEN "High-value decision maker"
             ELSE IF job_score >= 7000 THEN "Technical leader/manager"
             ELSE IF job_score >= 5000 THEN "Technical professional"
             ELSE "Lower relevance role",
     tech |-> IF tech_score >= 8000 THEN "excellent tech fit"
              ELSE IF tech_score >= 6000 THEN "good tech alignment"
              ELSE "limited tech relevance",
     intent |-> IF intent_score >= 7500 THEN "strong buying signals"
                ELSE IF intent_score >= 5000 THEN "moderate buying intent"
                ELSE "weak buying signals",
     score |-> final_score]

RECURSIVE Gcd(_, _)
Gcd(a, b) == IF b = 0 THEN a ELSE Gcd(b, a % b)
Lcm(a, b) == (a * b) \div Gcd(a, b)

\* the weighted sum without the size multiplier
WeightedScore_NoMultiplier(w, job, tech, intent, mult) ==
    LET wj == w["job_title"]
        wt == w["tech_stack"]
        wi == w["buying_intent"]
        d == Lcm(wj.den, Lcm(wt.den, wi.den))
    IN  Frac(job * wj.num * (d \div wj.den) + tech * wt.num * (d \div wt.den)
                + intent * wi.num * (d \div wi.den),
             d * 100)

\* the weighted sum times the size multiplier, before the clamp, as the
\* fraction num/den of a point (scores in hundredths, multiplier in tenths)
WeightedScore(w, job, tech, intent, mult) ==
    LET wj == w["job_title"]
        wt == w["tech_stack"]
        wi == w["buying_intent"]
        d == Lcm(wj.den, Lcm(wt.den, wi.den))
    IN  Frac((job * wj.num * (d \div wj.den) + tech * wt.num * (d \div wt.den)
                + intent * wi.num * (d \div wi.den)) * mult,
             d * 1000)

\* the lower bound only: max(0, final_score)
ClampScore_NoUpper(f) == IF f.num < 0 THEN Frac(0, 1) ELSE f

\* max(0, min(100, final_score)) of a fraction with a positive denominator
ClampScore(f) ==
    IF f.num > 100 * f.den THEN Frac(100, 1)
    ELSE IF f.num < 0 THEN Frac(0, 1)
    ELSE f

ScoreFields == {"job_title_score", "tech_stack_score", "buying_intent_score",
                "lead_score", "score_explanation"}

\* the dictionary started empty instead of from lead.to_dict()
MergeScores_WithoutLead(lead, scores) == scores

\* scored_lead = lead.to_dict(); scored_lead.update(scores)
MergeScores(lead, scores) == scores @@ lead

\* _score_single_lead(lead) under the weights w with the draws d of this row
ScoreSingleLead(w, lead, d) ==
    IF \E i \in 1..Len(WeightKeys) : WeightKeys[i] \notin DOMAIN w
    THEN \* self.weights['job_title'], ['tech_stack'], ['buying_intent'], in this order
         LET i == CHOOSE j \in 1..Len(WeightKeys) :
                      /\ WeightKeys[j] \notin DOMAIN w
                      /\ \A h \in 1..(j - 1) : WeightKeys[h] \in DOMAIN w
         IN  [exc |-> Exc("KeyError", WeightKeys[i]), lead |-> <<>>]
    ELSE
        LET job_title_score == ScoreJobTitle(lead.job_category, lead.seniority_level, d.job)
            tech_stack_score == ScoreTechStack(lead.tech_stack, d.tech)
            buying_intent_score == ScoreBuyingIntent(lead, d.market, d.noise)
            size_multiplier == Get(size_multipliers, lead.company_size, 10)
            final_score == ClampScore(WeightedScore(w, job_title_score, tech_stack_score,
                                                    buying_intent_score, size_multiplier))
            scores ==
                ("job_title_score" :> Round1(job_title_score)) @@
                ("tech_stack_score" :> Round1(tech_stack_score)) @@
                ("buying_intent_score" :> Round1(buying_intent_score)) @@
                ("lead_score" :> RoundHalfEven(final_score.num * 10, final_score.den)) @@
                ("score_explanation" :> GenerateExplanation(job_title_score, tech_stack_score,
                                                            buying_intent_score, final_score))
        IN  [exc |-> NoExc, lead |-> MergeScores(lead, scores)]

\* each scored row put in front of the list instead of appended to it
ScoreLeadsResult_Prepend(w, df, draws) ==
    LET rows == [i \in 1..Len(df) |-> ScoreSingleLead(w, df[i], draws[i])]
    IN  IF \E i \in 1..Len(df) : rows[i].exc # NoExc
        THEN Raised(rows[CHOOSE i \in 1..Len(df) : rows[i].exc # NoExc].exc)
        ELSE Returned([i \in 1..Len(df) |-> rows[Len(df) + 1 - i].lead])

\* score_leads(df) under the weights w with one record of draws per row
ScoreLeadsResult(w, df, draws) ==
    LET rows == [i \in 1..Len(df) |-> ScoreSingleLead(w, df[i], draws[i])]
    IN  IF \E i \in 1..Len(df) : rows[i].exc # NoExc
        THEN Raised(rows[CHOOSE i \in 1..Len(df) :
                             /\ rows[i].exc # NoExc
                             /\ \A h \in 1..(i - 1) : rows[h].exc = NoExc].exc)
        ELSE Returned([i \in 1..Len(df) |-> rows[i].lead])

(***************************************************************************)
(* Operations.                                                             *)
(***************************************************************************)
\* no table yet (st.session_state.processed_leads = None)
None == <<>>

\* ScoringEngine.update_weights(new_weights)
UpdateWeights(new_weights) ==
    /\ weights' = UpdateWeightsResult(weights, new_weights)
    /\ call' = [fn |-> "update_weights", arg |-> new_weights]
    /\ rnd' = <<>>
    /\ ret' = Returned(None)
    /\ UNCHANGED <<enriched_df, processed_leads>>

\* the draws of the rows a call went through before it ended
Consumed(result, draws) == IF result.status = "returned" THEN draws ELSE <<>>

\* LeadEnricher.enrich_leads(df), as process_leads calls it: on an exception
\* process_leads' except clause ends the run and enriched_df is never bound
EnrichLeads(df, draws) ==
    LET result == EnrichLeadsResult(df, draws)
    IN  /\ call' = [fn |-> "enrich_leads", arg |-> df]
        /\ rnd' = Consumed(result, draws)
        /\ ret' = result
        /\ enriched_df' = IF result.status = "returned" THEN result.val ELSE None
        /\ UNCHANGED <<weights, processed_leads>>

\* ScoringEngine.score_leads(df)
ScoreLeadsCall(df, draws) ==
    LET result == ScoreLeadsResult(weights, df, draws)
    IN  /\ call' = [fn |-> "score_leads", arg |-> df]
        /\ rnd' = Consumed(result, draws)
        /\ ret' = result
        /\ UNCHANGED <<weights, enriched_df>>

\* scored_df = score_leads(df) followed by processed_leads = scored_df: the
\* caller keeps the table; an exception leaves the one it had
ScoreLeads(df, draws) ==
    /\ ScoreLeadsCall(df, draws)
    /\ processed_leads' = IF ret'.status = "returned" THEN ret'.val ELSE processed_leads

\* a pure helper applied to the arguments chosen in the initial state; draws
\* is what it took from the random module
Apply(fn, value, draws) ==
    /\ call.fn = fn
    /\ ret = Pending
    /\ ret' = Returned(value)
    /\ rnd' = draws
    /\ UNCHANGED <<weights, call, enriched_df, processed_leads>>

\* the initial state of a specification that applies the helper fn to args
Called(fn, args) ==
    /\ weights = DefaultWeights
    /\ call \in {[fn |-> fn, arg |-> a] : a \in args}
    /\ rnd = <<>>
    /\ ret = Pending
    /\ enriched_df = None
    /\ processed_leads = None

\* all strings of 0..n of the given pieces
RECURSIVE Concatenations(_, _)
Concatenations(pieces, n) ==
    IF n = 0 THEN {""}
    ELSE LET shorter == Concatenations(pieces, n - 1)
         IN  shorter \cup {s \o c : s \in shorter, c \in pieces}

\* all tables of 0..n rows over a set of rows
RECURSIVE TablesUpTo(_, _)
TablesUpTo(rows, n) ==
    IF n = 0 THEN {<<>>}
    ELSE LET shorter == TablesUpTo(rows, n - 1)
         IN  shorter \cup {Append(t, r) : t \in {u \in shorter : Len(u) = n - 1}, r \in rows}

\* all tuples of exactly n draw records
DrawsFor(n, records) == [1..n -> records]

(***************************************************************************)
(* Spec: the pipeline as app.py drives it.  Every rerun of main calls      *)
(* update_weights with the three sliders; the button runs process_leads:   *)
(* enrich_leads, then score_leads on its result.                           *)
(***************************************************************************)
RowA == [name |-> "Dr. Jane Doe", email |-> "jane.dev@acme.com", company_domain |-> "acme.com"]
RowB == [name |-> "Al Roe", email |-> "al@bigco.io", company_domain |-> "Google.com"]

\* RowA with the cell of one column read as missing
WithNaN(row, field) == [f \in DOMAIN row |-> IF f = field THEN NaN ELSE row[f]]

RawRows == {RowA, RowB} \cup {WithNaN(RowA, RequiredFields[i]) : i \in 1..Len(RequiredFields)}

\* a table without the columns in dropped
DropColumns(table, dropped) ==
    [i \in 1..Len(table) |-> [f \in (DOMAIN table[i]) \ dropped |-> table[i][f]]]

FieldSet == {RequiredFields[i] : i \in 1..Len(RequiredFields)}

RawTables ==
    TablesUpTo(RawRows, MaxBatch)
    \cup {DropColumns(t, dropped) : t \in TablesUpTo({RowA, RowB}, MaxBatch) \ {<<>>},
                                   dropped \in (SUBSET FieldSet) \ {{}, FieldSet}}

\* the draws of one enriched row, at the low and at the high end of each range
PipelineEnrichDraws ==
    {[category |-> 0, title |-> 0, seniority |-> 0, tech |-> 0, size |-> 0,
      area_code |-> 200, exchange |-> 200, number |-> 1000],
     [category |-> 99, title |-> 5, seniority |-> 1, tech |-> 7, size |-> 99,
      area_code |-> 999, exchange |-> 999, number |-> 9999]}

\* the draws of one scored row, at the low and at the high end of each range
EndDraws ==
    {[job |-> k, tech |-> k, market |-> k, noise |-> k] : k \in {0, Grain}}

Mapping(j, t, b) == ("job_title" :> j) @@ ("tech_stack" :> t) @@ ("buying_intent" :> b)

\* slider positions, in tenths
SliderMappings == {Mapping(4, 3, 3), Mapping(0, 0, 0), Mapping(10, 0, 5)}

Init ==
    /\ weights = DefaultWeights
    /\ call = [fn |-> "__init__", arg |-> None]
    /\ rnd = <<>>
    /\ ret = Returned(None)
    /\ enriched_df = None
    /\ processed_leads = None

\* process_leads is between enrich_leads and score_leads
MidProcess == call.fn = "enrich_leads" /\ ret.status = "returned"

\* main: the sidebar
Sidebar == /\ ~MidProcess
           /\ \E m \in SliderMappings : UpdateWeights(m)

\* process_leads, step 1
ProcessEnrich ==
    /\ call.fn = "update_weights"
    /\ processed_leads = None
    /\ \E df \in RawTables : \E draws \in DrawsFor(Len(df), PipelineEnrichDraws) :
           EnrichLeads(df, draws)

\* process_leads, step 2
ProcessScore ==
    /\ MidProcess
    /\ \E draws \in DrawsFor(Len(enriched_df), EndDraws) : ScoreLeads(enriched_df, draws)

Next == Sidebar \/ ProcessEnrich \/ ProcessScore

Spec == Init /\ [][Next]_vars

(***************************************************************************)
(* SpecScore: score_leads on one enriched record of any content, under     *)
(* the weights a few update_weights calls leave.                           *)
(***************************************************************************)
JobCategories == {categories[i] : i \in 1..Len(categories)}
SeniorityLevels == {"Executive", "Senior", "Mid-level", "Junior"}
CompanySizes == {company_sizes[i] : i \in 1..Len(company_sizes)}

\* values of the three columns that no table of the engine maps
Unmapped == [job_category |-> "intern", seniority_level |-> "Principal", company_size |-> "Unknown"]

\* tech stacks with 0, 1, 2 and 3 vocabulary hits
SampleStacks == {"PHP, Laravel", "Python", "Go, Kubernetes, Docker", "AWS, API, Cloud"}

ConformingRows ==
    {[name |-> "Jane Doe", email |-> "jane@acme.com", company_domain |-> "acme.com",
      job_title |-> "Software Engineer", seniority_level |-> s,
      linkedin_url |-> "https://linkedin.com/in/jane-doe", tech_stack |-> t,
      company_size |-> z, phone |-> "+1 (200) 200-1000", job_category |-> c] :
        c \in JobCategories \cup {Unmapped.job_category},
        s \in SeniorityLevels \cup {Unmapped.seniority_level},
        z \in CompanySizes \cup {Unmapped.company_size},
        t \in SampleStacks}

ScoreDraws == [job : UnitDraws, tech : UnitDraws, market : UnitDraws, noise : UnitDraws]

\* negative weights with a positive sum, and a mapping without one of the keys
ScoreMappings ==
    {Mapping(3, -1, -1), Mapping(-1, -1, 3), ("job_title" :> 1) @@ ("tech_stack" :> 1)}

InitScore ==
    /\ weights = DefaultWeights
    /\ call = [fn |-> "__init__", arg |-> None]
    /\ rnd = <<>>
    /\ ret = Returned(None)
    /\ enriched_df \in {<<r>> : r \in ConformingRows}
    /\ processed_leads = None

\* the weights are set before the table is scored
Configure ==
    /\ call.fn # "score_leads"
    /\ \E m \in ScoreMappings : UpdateWeights(m)

\* a second pass over enriched_df under the same weights repeats the first
ScoreOne ==
    /\ call.fn # "score_leads"
    /\ \E draws \in DrawsFor(Len(enriched_df), ScoreDraws) : ScoreLeadsCall(enriched_df, draws)
    /\ UNCHANGED processed_leads

NextScore == Configure \/ ScoreOne

SpecScore == InitScore /\ [][NextScore]_vars

(***************************************************************************)
(* SpecEngine: the engine under any update_weights arguments, scoring a    *)
(* table and then scoring its own output again, pass after pass.           *)
(***************************************************************************)
EngineRows ==
    {r \in ConformingRows :
        \/ /\ r.job_category = "decision_maker" /\ r.seniority_level = "Executive"
           /\ r.company_size = "Enterprise" /\ r.tech_stack = "AWS, API, Cloud"
        \/ /\ r.job_category = "other" /\ r.seniority_level = "Junior"
           /\ r.company_size = "Startup" /\ r.tech_stack = "PHP, Laravel"}

WeightValues == {-1, 0, 3}

EngineMappings ==
    {Mapping(j, t, b) : j \in WeightValues, t \in WeightValues, b \in WeightValues}
    \cup ScoreMappings
    \cup {Mapping(4, 3, 3), Mapping(1, 1, 1) @@ ("company_size" :> 1), <<>>}

InitEngine ==
    /\ weights = DefaultWeights
    /\ call = [fn |-> "__init__", arg |-> None]
    /\ rnd = <<>>
    /\ ret = Returned(None)
    /\ enriched_df \in {<<r>> : r \in EngineRows}
    /\ processed_leads = None

AnyUpdate == \E m \in EngineMappings : UpdateWeights(m)

FirstPass ==
    /\ processed_leads = None
    /\ \E draws \in DrawsFor(Len(enriched_df), EndDraws) : ScoreLeads(enriched_df, draws)

NextPass ==
    /\ processed_leads # None
    /\ \E draws \in DrawsFor(Len(processed_leads), EndDraws) : ScoreLeads(processed_leads, draws)

NextEngine == AnyUpdate \/ FirstPass \/ NextPass

SpecEngine == InitEngine /\ [][NextEngine]_vars

(***************************************************************************)
(* SpecClassify: _determine_job_category on e-mails put together from the  *)
(* patterns of its rules, in both casings, and neutral pieces.             *)
(***************************************************************************)
EmailPieces ==
    DecisionMakerPatterns \cup ExecutivePatterns \cup TechnicalPatterns \cup ManagementPatterns
    \cup {"CEO", "Dev", "jane.", "de", "v"}

Emails == {local \o "@acme.io" : local \in Concatenations(EmailPieces, MaxParts)}

SampleNames == {"Jane Doe", "Dr. Jane Doe", "Sandra Roe", "AL ROE PHD"}

ClassifyArgs == [email : Emails, name : SampleNames]

InitClassify == Called("_determine_job_category", ClassifyArgs)

ApplyClassify ==
    \E p \in Percentiles :
        Apply("_determine_job_category",
              DetermineJobCategory(call.arg.email, call.arg.name, p),
              IF MatchedRule(call.arg.email, call.arg.name) = 6 THEN <<p>> ELSE <<>>)

SpecClassify == InitClassify /\ [][ApplyClassify]_vars

(***************************************************************************)
(* SpecSize: _determine_company_size on domains put together from the      *)
(* large-company fragments, in both casings, and neutral pieces.           *)
(***************************************************************************)
DomainPieces == large_domains \cup {"Google", "NETFLIX", "www.", "acme", "goo", "gle"}

Domains == {d \o ".com" : d \in Concatenations(DomainPieces, MaxParts)}

InitSize == Called("_determine_company_size", Domains)

ApplySize ==
    \E p \in Percentiles :
        Apply("_determine_company_size",
              DetermineCompanySize(call.arg, p),
              IF IsLargeDomain(call.arg) THEN <<>> ELSE <<p>>)

SpecSize == InitSize /\ [][ApplySize]_vars

(***************************************************************************)
(* SpecUrl: _generate_linkedin_url on every short name over letters,       *)
(* whitespace and punctuation.                                             *)
(***************************************************************************)
NameChars == {"a", "Z", " ", "\t", ".", "-"}

Names == Concatenations(NameChars, MaxNameLen)

InitUrl == Called("_generate_linkedin_url", Names)

ApplyUrl == Apply("_generate_linkedin_url", GenerateLinkedinUrl(call.arg), <<>>)

SpecUrl == InitUrl /\ [][ApplyUrl]_vars

(***************************************************************************)
(* SpecEnrich: process_leads on a table of one raw row, with every title   *)
(* of every pool and every bucket of the category distribution drawn.      *)
(***************************************************************************)
\* one row per rule of _determine_job_category, one that matches none, one
\* of a large company and one with a missing cell
EnrichRows ==
    {[name |-> n, email |-> e \o "@acme.io", company_domain |-> "acme.io"] :
        n \in {"Al Roe"}, e \in {"ceo", "vp", "dev", "lead", "al"}}
    \cup {[name |-> "Dr. Al", email |-> "al@acme.io", company_domain |-> "acme.io"],
          [name |-> "Al Roe", email |-> "al@Google.com", company_domain |-> "Google.com"],
          WithNaN(RowA, "email")}

\* the longest title pool
LongestPool ==
    CHOOSE n \in {Len(job_titles[c]) : c \in DOMAIN job_titles} :
        \A c \in DOMAIN job_titles : Len(job_titles[c]) <= n

\* the draws of one enriched row: every bucket of random.choices, every index
\* random.choice can return for a title, both seniority fallbacks
EnrichDraws ==
    [category : Percentiles, title : 0..(LongestPool - 1), seniority : {0, 1},
     tech : {7}, size : {0, 99}, area_code : {200}, exchange : {999}, number : {1000}]

\* the draws a row can take: random.choices is called only for a row that
\* no rule of _determine_job_category matches
DrawsOf(row) ==
    IF MatchedRule(row.email, row.name) = 6
    THEN EnrichDraws
    ELSE {d \in EnrichDraws : d.category = 0}

\* process_leads, step 1, on a table of one row
EnrichOne ==
    /\ call.fn = "__init__"
    /\ \E row \in EnrichRows : \E d \in DrawsOf(row) : EnrichLeads(<<row>>, <<d>>)

NextEnrich == EnrichOne \/ ProcessScore

SpecEnrich == Init /\ [][NextEnrich]_vars

(***************************************************************************)
(* SpecFormula: score_leads on one lead of each company size, mapped or    *)
(* not, under weights that are tenths, thirds, sevenths or negative.       *)
(***************************************************************************)
FormulaRows ==
    {r \in ConformingRows :
        /\ r.job_category \in {"technical", "decision_maker"}
        /\ r.seniority_level \in {"Senior", "Junior"}
        /\ r.tech_stack \in {"Python", "AWS, API, Cloud"}}

FormulaMappings == {Mapping(4, 3, 3), Mapping(1, 1, 1), Mapping(2, 5, 0), Mapping(3, -1, -1)}

InitFormula ==
    /\ weights = DefaultWeights
    /\ call = [fn |-> "__init__", arg |-> None]
    /\ rnd = <<>>
    /\ ret = Returned(None)
    /\ enriched_df \in {<<r>> : r \in FormulaRows}
    /\ processed_leads = None

\* the sidebar sets the weights before the table is scored
SetWeights ==
    /\ call.fn # "score_leads"
    /\ \E m \in FormulaMappings : UpdateWeights(m)

NextFormula == SetWeights \/ ScoreOne

SpecFormula == InitFormula /\ [][NextFormula]_vars

(***************************************************************************)
(* SpecTech: _score_tech_stack on stacks put together from vocabulary      *)
(* terms in both casings, other technologies and whole stacks.             *)
(***************************************************************************)
StackPieces ==
    {"Go, Kubernetes, Docker", "React, Node.js, ", "PYTHON", "api ", "PHP, Laravel, ",
     "Java", "Azure", "cloud"}

Stacks == Concatenations(StackPieces, MaxParts)

InitTech == Called("_score_tech_stack", Stacks)

ApplyTech ==
    \E k \in UnitDraws : Apply("_score_tech_stack", ScoreTechStack(call.arg, k), <<k>>)

SpecTech == InitTech /\ [][ApplyTech]_vars

(***************************************************************************)
(* Properties.                                                             *)
(***************************************************************************)
EnrichmentFields == {"name", "email", "company_domain", "job_title", "seniority_level",
                     "linkedin_url", "tech_stack", "company_size", "phone", "job_category"}

NumericScoreFields == {"job_title_score", "tech_stack_score", "buying_intent_score", "lead_score"}

ScoreReturned == call.fn = "score_leads" /\ ret.status = "returned"

\* the stored scores of a row, in tenths, lie in [0, 100]
InRange(row) == \A f \in NumericScoreFields : 0 <= row[f] /\ row[f] <= 1000

\* C1: every lead score_leads returns has lead_score, job_title_score,
\* tech_stack_score and buying_intent_score within [0, 100], whatever its
\* column values, the draws and the weights held
C1_ScoresInRange ==
    ScoreReturned => \A i \in 1..Len(ret.val) : InRange(ret.val[i])

\* C1 witness: under changed weights a lead with an unmapped job_category is
\* scored and the upper clamp of the final score takes effect
C1_Witness ==
    /\ ScoreReturned
    /\ weights # DefaultWeights
    /\ \E i \in 1..Len(ret.val) :
           /\ ret.val[i].job_category = Unmapped.job_category
           /\ ret.val[i].lead_score = 1000
           /\ ret.val[i].score_explanation.score = Frac(100, 1)

\* the three weights exist and sum to 1
Normalized(w) ==
    /\ \A i \in 1..Len(WeightKeys) : WeightKeys[i] \in DOMAIN w
    /\ LET d == Lcm(w["job_title"].den, Lcm(w["tech_stack"].den, w["buying_intent"].den))
       IN  /\ d # 0
           /\ w["job_title"].num * (d \div w["job_title"].den)
                + w["tech_stack"].num * (d \div w["tech_stack"].den)
                + w["buying_intent"].num * (d \div w["buying_intent"].den) = d

\* C2: in every reachable state of the engine the held weights are
\* normalized: job_title, tech_stack and buying_intent sum to 1.0
C2_WeightsNormalized == Normalized(weights)

\* the fraction f equals n/d
IsRatio(f, n, d) == f.den # 0 /\ f.num * d = n * f.den

\* C3: update_weights with a sum <= 0 leaves the weights as they were; with a
\* sum > 0 each weight becomes value/sum (4, 3, 3 gives 0.4/0.3/0.3); and
\* score_leads never changes the weights
C3_UpdateWeightsContract ==
    [][/\ call'.fn = "update_weights" =>
              LET m == call'.arg
                  total == SumValues(m, DOMAIN m)
              IN  /\ total <= 0 => weights' = weights
                  /\ total > 0 =>
                        /\ DOMAIN weights' = DOMAIN m
                        /\ \A k \in DOMAIN m : IsRatio(weights'[k], m[k], total)
                  /\ m = Mapping(4, 3, 3) =>
                        /\ IsRatio(weights'["job_title"], 4, 10)
                        /\ IsRatio(weights'["tech_stack"], 3, 10)
                        /\ IsRatio(weights'["buying_intent"], 3, 10)
       /\ call'.fn = "score_leads" => weights' = weights]_vars

\* C3 witness: update_weights was called with a sum <= 0 on weights an
\* earlier call had changed, and they are still the changed ones
C3_Witness ==
    /\ call.fn = "update_weights"
    /\ call.arg # <<>>
    /\ SumValues(call.arg, DOMAIN call.arg) <= 0
    /\ weights # DefaultWeights

ClassifyReturned == call.fn = "_determine_job_category" /\ ret.status = "returned"

\* C4: _determine_job_category is an ordered cascade over the lower-cased
\* e-mail and name, first match wins; the random draw decides only when no
\* rule matches, and then yields one of the five categories
C4_Cascade ==
    ClassifyReturned =>
        LET e == Lower(call.arg.email)
            n == Lower(call.arg.name)
            dm == ContainsAny(e, {"ceo", "founder", "president", "exec"})
            ex == ContainsAny(e, {"cto", "vp", "head", "director"})
            te == ContainsAny(e, {"dev", "engineer", "tech", "code"})
            ma == ContainsAny(e, {"manager", "lead", "principal"})
            nt == ContainsAny(n, {"dr", "prof", "phd"})
        IN  /\ dm => ret.val = "decision_maker"
            /\ (~dm /\ ex) => ret.val = "executive"
            /\ (~dm /\ ~ex /\ te) => ret.val = "technical"
            /\ (~dm /\ ~ex /\ ~te /\ ma) => ret.val = "management"
            /\ (~dm /\ ~ex /\ ~te /\ ~ma /\ nt) => ret.val = "technical"
            /\ (dm \/ ex \/ te \/ ma \/ nt) => rnd = <<>>
            /\ ~(dm \/ ex \/ te \/ ma \/ nt) =>
                  /\ Len(rnd) = 1
                  /\ ret.val \in {"technical", "management", "executive", "decision_maker",
                                  "other"}

\* C4 witness: an e-mail with an upper-case "CEO" that also holds a technical
\* pattern, under a name with a title, is classified decision_maker
C4_Witness ==
    /\ ClassifyReturned
    /\ Contains(call.arg.email, "CEO")
    /\ Contains(call.arg.email, "dev")
    /\ call.arg.name = "Dr. Jane Doe"
    /\ ret.val = "decision_maker"

SizeReturned == call.fn = "_determine_company_size" /\ ret.status = "returned"

\* C5: a domain holding a large-company fragment in any casing is Enterprise
\* without a draw; any other is Startup below 0.20, Small below 0.50, Medium
\* below 0.80, Large below 0.95 and Enterprise from there on
C5_SizeBuckets ==
    SizeReturned =>
        IF \E frag \in {"google", "microsoft", "apple", "amazon", "facebook", "netflix"} :
               Contains(Lower(call.arg), frag)
        THEN ret.val = "Enterprise" /\ rnd = <<>>
        ELSE /\ Len(rnd) = 1
             /\ ret.val = IF rnd[1] < 20 THEN "Startup"
                          ELSE IF rnd[1] < 50 THEN "Small"
                          ELSE IF rnd[1] < 80 THEN "Medium"
                          ELSE IF rnd[1] < 95 THEN "Large"
                          ELSE "Enterprise"

\* C5 witness: a draw exactly on the first boundary falls in the second bucket
C5_Witness == SizeReturned /\ rnd = <<20>> /\ ret.val = "Small"

\* the required fields a raw row lacks: the column is absent or the cell is missing
LackedFields(row) == {f \in FieldSet : f \notin DOMAIN row \/ row[f] = NaN}

LacksField(df) == \E i \in 1..Len(df) : LackedFields(df[i]) # {}

\* C6: enrich_leads on a batch with a row lacking a required field fails
\* with MissingFieldError naming a lacked field and returns no rows
C6_MissingFieldError ==
    (call.fn = "enrich_leads" /\ LacksField(call.arg)) =>
        /\ ret.status = "raised"
        /\ ret.val = <<>>
        /\ ret.exc.kind = "MissingFieldError"
        /\ \E i \in 1..Len(call.arg) : ret.exc.arg \in LackedFields(call.arg[i])

\* C7: score_leads has no error path: after any update_weights calls it
\* returns, with a clamped score on every row
C7_ScoringNeverFails ==
    call.fn = "score_leads" =>
        /\ ret.status = "returned"
        /\ \A i \in 1..Len(ret.val) : 0 <= ret.val[i].lead_score /\ ret.val[i].lead_score <= 1000

\* row i of the output carries the listed fields of row i of the input
SameRows(out, in, fields) ==
    /\ Len(out) = Len(in)
    /\ \A i \in 1..Len(in) : \A f \in fields : f \in DOMAIN out[i] /\ out[i][f] = in[i][f]

\* C8: enrich_leads and score_leads return as many rows as they were given,
\* row i derived from input row i
C8_RowsCorrespond ==
    /\ (call.fn = "enrich_leads" /\ ret.status = "returned") =>
           SameRows(ret.val, call.arg, FieldSet)
    /\ ScoreReturned => SameRows(ret.val, call.arg, EnrichmentFields)

\* C8 witness: a table of two different leads went through enrich_leads and
\* score_leads
C8_Witness ==
    /\ ScoreReturned
    /\ Len(ret.val) = 2
    /\ ret.val[1].name = RowA.name
    /\ ret.val[2].name = RowB.name
    /\ ret.val[1].job_category # ret.val[2].job_category

\* C9: after any number of scoring passes the enrichment fields of each lead
\* are as enrichment left them, and the only other fields are the five
\* score fields
C9_EnrichmentFieldsKept ==
    processed_leads # None =>
        /\ SameRows(processed_leads, enriched_df, EnrichmentFields)
        /\ \A i \in 1..Len(processed_leads) :
               DOMAIN processed_leads[i] = EnrichmentFields \cup ScoreFields

\* C9 witness: a pass over the engine's own output, under changed weights,
\* replaced the lead score
C9_Witness ==
    /\ ScoreReturned
    /\ call.arg # enriched_df
    /\ weights # DefaultWeights
    /\ processed_leads = ret.val
    /\ ret.val[1].lead_score # call.arg[1].lead_score

RECURSIVE HyphenateRuns(_, _, _)
\* s from position i on with every run of whitespace replaced by one hyphen
HyphenateRuns(s, i, inRun) ==
    IF i > Len(s) THEN ""
    ELSE IF IsSpace(CharAt(s, i))
         THEN (IF inRun THEN "" ELSE "-") \o HyphenateRuns(s, i + 1, TRUE)
         ELSE CharAt(s, i) \o HyphenateRuns(s, i + 1, FALSE)

\* C10: _generate_linkedin_url(name) is https://linkedin.com/in/ followed by
\* the letters and whitespace of name, lower-cased, each whitespace run
\* replaced by a single hyphen
C10_SlugCollapsesWhitespace ==
    (call.fn = "_generate_linkedin_url" /\ ret.status = "returned") =>
        ret.val = "https://linkedin.com/in/"
                    \o HyphenateRuns(Lower(StripNonLetters(call.arg)), 1, FALSE)

EnrichReturned == call.fn = "enrich_leads" /\ ret.status = "returned"

\* C11: every lead enrich_leads returns has a job_category among the five
\* categories, a seniority_level among Executive, Senior, Mid-level and
\* Junior, and a job_title from the title pool of its own job_category
C11_EnumsAndTitlePool ==
    EnrichReturned =>
        \A i \in 1..Len(ret.val) :
            LET lead == ret.val[i]
            IN  /\ lead.job_category \in {"technical", "management", "executive",
                                          "decision_maker", "other"}
                /\ lead.seniority_level \in {"Executive", "Senior", "Mid-level", "Junior"}
                /\ \E j \in 1..Len(job_titles[lead.job_category]) :
                       lead.job_title = job_titles[lead.job_category][j]

\* C11 witness: a lead no rule matches drew the category other, the last
\* title of that pool and the Mid-level fallback
C11_Witness ==
    /\ EnrichReturned
    /\ ret.val[1].email = "al@acme.io"
    /\ ret.val[1].job_category = "other"
    /\ ret.val[1].job_title = "Sales Engineer"
    /\ ret.val[1].seniority_level = "Mid-level"

\* C15: no lead enrich_leads returns has seniority_level Junior, whatever the
\* category and the title drawn from its pool, so no lead scored after
\* enrichment carries the Junior penalty: its job_title_score is at least the
\* lower end of the base range of its category
C15_JuniorUnreachable ==
    /\ EnrichReturned =>
           \A i \in 1..Len(ret.val) :
               ret.val[i].seniority_level \in {"Executive", "Senior", "Mid-level"}
    /\ (ScoreReturned /\ enriched_df # None) =>
           \A i \in 1..Len(ret.val) :
               /\ ret.val[i].seniority_level # "Junior"
               /\ ret.val[i].job_title_score >= job_title_scores[ret.val[i].job_category][1] * 10

\* C15 witness: a lead of the category other with a title that matches no
\* seniority pattern was scored at the lower end of the base range
C15_Witness ==
    /\ ScoreReturned
    /\ enriched_df # None
    /\ ret.val[1].job_category = "other"
    /\ ret.val[1].job_title = "QA Engineer"
    /\ ret.val[1].seniority_level = "Mid-level"
    /\ ret.val[1].job_title_score = 300

\* |a - b| <= c
Within(a, b, c) == a - b <= c /\ b - a <= c

\* C12: lead_score is the one-decimal rounding of
\* clamp[0,100]((jobScore*w_job + techScore*w_tech + intentScore*w_intent) * sizeMultiplier)
\* over the sub-scores of the same pass (whose roundings are the stored
\* sub-scores) and the weights held, with sizeMultiplier 1.2 for Enterprise,
\* 1.1 for Large, 1.0 for Medium, 0.9 for Small, 0.8 for Startup and 1.0 for
\* any other company_size
C12_LeadScoreFormula ==
    ScoreReturned =>
        \A i \in 1..Len(ret.val) :
            LET lead == call.arg[i]
                out == ret.val[i]
                job == ScoreJobTitle(lead.job_category, lead.seniority_level, rnd[i].job)
                tech == ScoreTechStack(lead.tech_stack, rnd[i].tech)
                intent == ScoreBuyingIntent(lead, rnd[i].market, rnd[i].noise)
                tenths == IF lead.company_size = "Enterprise" THEN 12
                          ELSE IF lead.company_size = "Large" THEN 11
                          ELSE IF lead.company_size = "Medium" THEN 10
                          ELSE IF lead.company_size = "Small" THEN 9
                          ELSE IF lead.company_size = "Startup" THEN 8
                          ELSE 10
                wj == weights["job_title"]
                wt == weights["tech_stack"]
                wi == weights["buying_intent"]
                den == wj.den * wt.den * wi.den
                \* the product in thousandths of a point, times den
                num == (job * wj.num * wt.den * wi.den + tech * wt.num * wj.den * wi.den
                          + intent * wi.num * wj.den * wt.den) * tenths
                clamped == Clamp(0, 100000 * den, num)
            IN  /\ Within(out.job_title_score * 10, job, 5)
                /\ Within(out.tech_stack_score * 10, tech, 5)
                /\ Within(out.buying_intent_score * 10, intent, 5)
                /\ Within(out.lead_score * 100 * den, clamped, 50 * den)

\* C12 witness: under weights of one third each a Large lead got a score
\* strictly between the two ends of the clamp that is not a whole tenth
\* before rounding
C12_Witness ==
    /\ ScoreReturned
    /\ IsRatio(weights["job_title"], 1, 3)
    /\ ret.val[1].company_size = "Large"
    /\ ret.val[1].lead_score > 0
    /\ ret.val[1].lead_score < 1000
    /\ (ret.val[1].score_explanation.score.num * 10) % ret.val[1].score_explanation.score.den # 0

TechReturned == call.fn = "_score_tech_stack" /\ ret.status = "returned"

\* the vocabulary terms that occur in s, case-insensitively
Hits(s) ==
    Cardinality({term \in {"react", "node.js", "python", "kubernetes", "docker", "aws", "azure",
                           "microservices", "api", "cloud"} : Contains(Lower(s), term)})

\* C13: _score_tech_stack draws its score from the range the number of
\* vocabulary terms found in tech_stack selects: 3 or more [85,100], 2
\* [70,90], 1 [55,75], 0 [30,60]; "Go, Kubernetes, Docker" has 2 hits and a
\* score in [70,90]
C13_TechStackRanges ==
    TechReturned =>
        LET hits == Hits(call.arg)
        IN  /\ hits >= 3 => (8500 <= ret.val /\ ret.val <= 10000)
            /\ hits = 2 => (7000 <= ret.val /\ ret.val <= 9000)
            /\ hits = 1 => (5500 <= ret.val /\ ret.val <= 7500)
            /\ hits = 0 => (3000 <= ret.val /\ ret.val <= 6000)
            /\ call.arg = "Go, Kubernetes, Docker" =>
                  (hits = 2 /\ 7000 <= ret.val /\ ret.val <= 9000)

\* C13 witness: "Go, Kubernetes, Docker" scored at the upper end of [70,90]
C13_Witness ==
    /\ TechReturned
    /\ call.arg = "Go, Kubernetes, Docker"
    /\ rnd = <<Grain>>
    /\ ret.val = 9000

\* C14: score_explanation agrees with the scores stored on the same row: the
\* job clause is the one the thresholds 85/70/50 select for the stored
\* job_title_score, the tech clause the one 80/60 select for the stored
\* tech_stack_score, the intent clause the one 75/50 select for the stored
\* buying_intent_score, and the number after "Score:" is the stored lead_score
C14_ExplanationAgrees ==
    ScoreReturned =>
        \A i \in 1..Len(ret.val) :
            LET out == ret.val[i]
                said == out.score_explanation
            IN  /\ said.job = IF out.job_title_score >= 850 THEN "High-value decision maker"
                              ELSE IF out.job_title_score >= 700 THEN "Technical leader/manager"
                              ELSE IF out.job_title_score >= 500 THEN "Technical professional"
                              ELSE "Lower relevance role"
                /\ said.tech = IF out.tech_stack_score >= 800 THEN "excellent tech fit"
                               ELSE IF out.tech_stack_score >= 600 THEN "good tech alignment"
                               ELSE "limited tech relevance"
                /\ said.intent = IF out.buying_intent_score >= 750 THEN "strong buying signals"
                                 ELSE IF out.buying_intent_score >= 500
                                      THEN "moderate buying intent"
                                 ELSE "weak buying signals"
                /\ IsRatio(said.score, out.lead_score, 10)

\* C16: buying_intent_score never exceeds 85, the sum of the largest category
\* bonus, size bonus, seniority bonus, market factor and noise, so the upper
\* bound of the clamp in _score_buying_intent never takes effect
C16_IntentAtMost85 ==
    ScoreReturned => \A i \in 1..Len(ret.val) : ret.val[i].buying_intent_score <= 850

\* C16 witness: an Executive decision maker of an Enterprise with both draws
\* at their upper end has a buying_intent_score of exactly 85
C16_Witness ==
    /\ ScoreReturned
    /\ ret.val[1].job_category = "decision_maker"
    /\ ret.val[1].company_size = "Enterprise"
    /\ ret.val[1].seniority_level = "Executive"
    /\ rnd[1].market = Grain
    /\ rnd[1].noise = Grain
    /\ ret.val[1].buying_intent_score = 850

====
